---- MODULE Spec2Model ----
(***************************************************************************)
(* Model of the command dispatcher and forced-action state machine of      *)
(* neuro-api-human-control: TonyController (src/src/controller.py) and the *)
(* parts of HumanView (src/src/view.py) it drives.                         *)
(*                                                                         *)
(* Two threads of control act on the shared state:                         *)
(*   - the network thread runs the api callbacks (on_startup, ...,         *)
(*     on_action_result) directly;                                         *)
(*   - the UI thread runs the operator's button handlers, the modal        *)
(*     dialogs and the callbacks queued with wx.CallAfter.                 *)
(* The handlers on_actions_force and on_action_result are split at the     *)
(* points where they read the shared Registry, controls or id generator,   *)
(* so that the UI thread can run in between.                               *)
(***************************************************************************)
EXTENDS Integers, Sequences, FiniteSets, TLC

\* ------------------------------------------------------------------ bounds
MaxCmds == 4       \* commands the transport delivers in one run
MaxOps == 2        \* inputs of the operator to the main frame in one run
LiveCmds == 3      \* the same two bounds for the runs checked for liveness
LiveOps == 1
MaxLen == 5        \* characters the latency field holds

\* ------------------------------------------------------------------ values
Names == {"a", "b"}
NoSchema == "None"      \* action.schema is None
EmptySchema == "{}"     \* a schema that is falsy but not None
ObjSchema == "object"   \* a non-empty schema
Schemas == {NoSchema, EmptySchema, ObjSchema}
NeuroAction == [name : Names, schema : Schemas]
\* the actions the game registers in a run
A1 == [name |-> "a", schema |-> NoSchema]
A2 == [name |-> "a", schema |-> ObjSchema]
B1 == [name |-> "b", schema |-> EmptySchema]
\* cmd.actions of the actions/register commands: one action, two actions, the same
\* name twice in one command
RegisterBatches == {<<A1>>, <<B1>>, <<A2, B1>>, <<A1, A2>>}
\* cmd.action_names of the actions/unregister commands
UnregisterBatches == {<<"a">>, <<"b">>, <<"a", "b">>}

NoData == "None"        \* data=None
SampleData == "sample"  \* json.dumps(JSF(schema).generate())
TextData == "text"      \* the text the operator confirmed in ActionDialog

NoError == "none"

NoToolTip == ""         \* latency_input.UnsetToolTip()

NoReturn == "none"      \* on_view_execute did not return in the step
ReturnsTrue == "True"
ReturnsFalse == "False"

NoState == "None"
ForceInputs == {[state |-> "s", query |-> "q", ephemeral |-> TRUE]}

\* ActionsForceCommand; req numbers the command objects (req = 0: None)
NoCmd == [req |-> 0, state |-> NoState, query |-> "", ephemeral |-> FALSE, names |-> {}]
NoAction == [name |-> "", schema |-> NoSchema]

VARIABLES
    model_actions,          \* TonyModel.actions
    active_actions_force,   \* TonyController.active_actions_force
    id_next,                \* i of action_id_generator
    sent,                   \* the invocations handed to api.send_action, in order
    execute_enabled,        \* main ActionList.execute_button is enabled
    ignore_actions_force,   \* Controls.ignore_actions_force
    auto_send,              \* Controls.auto_send
    net,                    \* the network thread: position and locals of its handler
    signals,                \* warning/info/error signals the last step emitted
    raised,                 \* the last step ended with an unhandled error (in which thread)
    ui_queue,               \* callbacks queued by wx.CallAfter
    view_actions,           \* main ActionList.actions
    view_rows,              \* main ActionList.list (names of the rows)
    dialogs,                \* modal dialogs open, innermost last
    req_count,              \* actions/force commands received so far
    budget,                 \* commands and operator inputs still to come, by kind
    superseded,             \* requests whose manual decision was pending at a startup
    cause_since_send,       \* an action/result or an unlock occurred after the last send,
                            \* or the Enable of an earlier one was still queued at that send
    removed_since_accept,   \* a candidate of the active request left the Registry since
                            \* execute_actions_force first stored the request
    latency,                \* Controls.latency
    latency_input,          \* the text of ControlPanel.latency_input
    latency_tooltip,        \* the tooltip of the latency field ("": unset)
    returned                \* what on_view_execute returned, if it returned in the last step

vars == <<model_actions, active_actions_force, id_next, sent, execute_enabled,
          ignore_actions_force, auto_send, net, signals, raised, ui_queue,
          view_actions, view_rows, dialogs, req_count, budget, superseded,
          cause_since_send, removed_since_accept, latency, latency_input,
          latency_tooltip, returned>>

\* ------------------------------------------------------------------ helpers
SeqSet(s) == {s[i] : i \in 1..Len(s)}

NamesOf(s) == {s[i].name : i \in 1..Len(s)}

RECURSIVE RemoveFirst(_, _)
RemoveFirst(rows, name) ==
    IF rows = <<>> THEN <<>>
    ELSE IF Head(rows) = name THEN Tail(rows)
    ELSE <<Head(rows)>> \o RemoveFirst(Tail(rows), name)

\* ------------------------------------------------------------------ TonyModel
has_action(actions, name) == \E i \in 1..Len(actions) : actions[i].name = name

add_action(actions, action) == Append(actions, action)

remove_action_by_name(actions, name) == SelectSeq(actions, LAMBDA a : a.name # name)

clear_actions == <<>>

\* ------------------------------------------------------------------ id generator
\* a generator that yields without advancing
ActionId_stuck(i) == <<"action_", 0>>

ActionId(i) == <<"action_", i>>    \* f'action_{i}'

NoId == <<"", 0>>                  \* no id drawn

\* ------------------------------------------------------------------ records
NetIdle == [pc |-> "idle", cmd |-> NoCmd, retry |-> FALSE, action |-> NoAction,
            from_result |-> FALSE, has_message |-> FALSE, id |-> NoId]

\* the log_warning / log_info / log_error / log_context calls of a step, in order;
\* of the log_system calls, the 'Forced action ignored.' of the two ignore branches
ZeroLog == <<>>

Signal(log, level, text) == Append(log, [level |-> level, text |-> text])

\* how many signals of a level a step emitted
Emitted(log, level) == Cardinality({i \in 1..Len(log) : log[i].level = level})

\* an entry of the wx.CallAfter queue
Callback(fn, action, cmd, retry) ==
    [fn |-> fn, action |-> action, cmd |-> cmd, retry |-> retry]

CallAfter(queue, fn, action, cmd, retry) ==
    Append(queue, Callback(fn, action, cmd, retry))

ForceDialog(cmd, actions, retry) ==
    [kind |-> "force", req |-> cmd.req, actions |-> actions, retry |-> retry,
     action |-> NoAction]

DataDialog(action, req) ==
    [kind |-> "data", req |-> req, actions |-> <<>>, retry |-> FALSE,
     action |-> action]

Invocation(id, name, data, req) == [id |-> id, name |-> name, data |-> data, req |-> req]

FullBudget == [cmds |-> MaxCmds, ops |-> MaxOps]

\* a step that emits no warning/info/error signal, raises nothing and in which
\* on_view_execute does not return
Quiet ==
    /\ signals' = ZeroLog
    /\ raised' = NoError
    /\ returned' = NoReturn

\* a step in which on_view_execute returns value, emitting no signal
Returns(value) ==
    /\ signals' = ZeroLog
    /\ raised' = NoError
    /\ returned' = value

\* a command is delivered: the network thread is between handlers
Deliver ==
    /\ net.pc = "idle"
    /\ budget.cmds > 0
    /\ budget' = [budget EXCEPT !.cmds = @ - 1]

\* the operator acts on the main frame (or on the buttons a dialog shares with it)
Operate ==
    /\ budget.ops > 0
    /\ budget' = [budget EXCEPT !.ops = @ - 1]

\* ------------------------------------------------------------------ view (ActionList)
view_remove_actions(actions, name) == SelectSeq(actions, LAMBDA a : a.name # name)

view_remove_row(rows, name) == RemoveFirst(rows, name)

view_row_found(rows, name) == \E i \in 1..Len(rows) : rows[i] = name

\* ------------------------------------------------------------------ initial state
Init ==
    /\ model_actions = <<>>
    /\ active_actions_force = NoCmd
    /\ id_next = 0
    /\ sent = <<>>
    /\ execute_enabled = TRUE
    /\ ignore_actions_force = FALSE
    /\ auto_send = FALSE
    /\ net = NetIdle
    /\ signals = ZeroLog
    /\ raised = NoError
    /\ ui_queue = <<>>
    /\ view_actions = <<>>
    /\ view_rows = <<>>
    /\ dialogs = <<>>
    /\ req_count = 0
    /\ budget = FullBudget
    /\ superseded = {}
    /\ cause_since_send = FALSE
    /\ removed_since_accept = FALSE
    /\ latency = 0
    /\ latency_input = <<"0">>
    /\ latency_tooltip = NoToolTip
    /\ returned = NoReturn

controller_vars == <<active_actions_force, id_next, sent>>
latency_vars == <<latency, latency_input, latency_tooltip>>
controls_vars == <<ignore_actions_force, auto_send, latency_vars>>
view_list_vars == <<view_actions, view_rows>>

\* the history variables a step leaves alone unless it says otherwise
history_vars == <<req_count, superseded, cause_since_send, removed_since_accept>>

\* a candidate of the active request is among the names leaving the Registry
Removes(gone) ==
    removed_since_accept' =
        (removed_since_accept
         \/ (active_actions_force # NoCmd /\ active_actions_force.names \cap gone # {}))

\* the requests whose forced-action dialog is open or queued
PendingDecisions ==
    {dialogs[i].req : i \in {j \in 1..Len(dialogs) : dialogs[j].kind = "force"}}
    \cup {ui_queue[i].cmd.req : i \in {j \in 1..Len(ui_queue) : ui_queue[j].fn = "force_actions"}}

\* ------------------------------------------------------------------ network thread
\* TonyController.on_startup
on_startup ==
    /\ Deliver
    /\ model_actions' = clear_actions
    /\ view_actions' = <<>>
    /\ view_rows' = <<>>
    /\ Quiet
    /\ superseded' = superseded \cup PendingDecisions
    /\ Removes(NamesOf(model_actions))
    /\ UNCHANGED <<controller_vars, execute_enabled, controls_vars, net, ui_queue,
                   dialogs, req_count, cause_since_send>>

\* TonyController.on_context: view.log_context only
on_context ==
    /\ Deliver
    /\ signals' = Signal(ZeroLog, "context", "message")
    /\ raised' = NoError
    /\ returned' = NoReturn
    /\ UNCHANGED <<model_actions, controller_vars, execute_enabled, controls_vars, net,
                   ui_queue, view_list_vars, dialogs, history_vars>>

\* a registration loop that adds every action without the has_action test
RECURSIVE register_loop_unchecked(_, _)
register_loop_unchecked(st, batch) ==
    IF batch = <<>> THEN st
    ELSE register_loop_unchecked(
            [st EXCEPT !.actions = add_action(@, Head(batch)),
                       !.queue = CallAfter(@, "add_action", Head(batch), NoCmd, FALSE)],
            Tail(batch))

\* a registration loop that gives up the batch at its first duplicate
RECURSIVE register_loop_stops(_, _)
register_loop_stops(st, batch) ==
    IF batch = <<>> THEN st
    ELSE IF has_action(st.actions, Head(batch).name)
         THEN [st EXCEPT !.log = Signal(@, "warning", "already exists")]
         ELSE register_loop_stops(
                [st EXCEPT !.actions = add_action(@, Head(batch)),
                           !.queue = CallAfter(@, "add_action", Head(batch), NoCmd, FALSE)],
                Tail(batch))

\* the loop of on_actions_register over cmd.actions, from state st
RECURSIVE register_loop(_, _)
register_loop(st, batch) ==
    IF batch = <<>> THEN st
    ELSE LET action == Head(batch) IN
         IF has_action(st.actions, action.name)
         THEN register_loop([st EXCEPT !.log = Signal(@, "warning", "already exists")],
                            Tail(batch))
         ELSE register_loop(
                [st EXCEPT !.actions = add_action(@, action),
                           !.queue = CallAfter(@, "add_action", action, NoCmd, FALSE)],
                Tail(batch))

\* TonyController.on_actions_register
on_actions_register(batch) ==
    /\ Deliver
    /\ LET st == register_loop([actions |-> model_actions, queue |-> ui_queue,
                                log |-> ZeroLog], batch)
       IN /\ model_actions' = st.actions
          /\ ui_queue' = st.queue
          /\ signals' = st.log
    /\ raised' = NoError
    /\ returned' = NoReturn
    /\ UNCHANGED <<controller_vars, execute_enabled, controls_vars, net,
                   view_list_vars, dialogs, history_vars>>

\* the loop of on_actions_unregister over cmd.action_names, from state st
RECURSIVE unregister_loop(_, _)
unregister_loop(st, names) ==
    IF names = <<>> THEN st
    ELSE LET name == Head(names)
             log1 == IF ~has_action(st.actions, name)
                     THEN Signal(st.log, "info", "does not exist") ELSE st.log
             log2 == IF ~view_row_found(st.rows, name)
                     THEN Signal(log1, "error", "not found in list") ELSE log1
         IN unregister_loop(
                [actions |-> remove_action_by_name(st.actions, name),
                 vactions |-> view_remove_actions(st.vactions, name),
                 rows |-> view_remove_row(st.rows, name),
                 log |-> log2],
                Tail(names))

\* TonyController.on_actions_unregister
on_actions_unregister(names) ==
    /\ Deliver
    /\ LET st == unregister_loop([actions |-> model_actions, vactions |-> view_actions,
                                  rows |-> view_rows, log |-> ZeroLog], names)
       IN /\ model_actions' = st.actions
          /\ view_actions' = st.vactions
          /\ view_rows' = st.rows
          /\ signals' = st.log
    /\ raised' = NoError
    /\ returned' = NoReturn
    /\ Removes(NamesOf(model_actions) \cap SeqSet(names))
    /\ UNCHANGED <<controller_vars, execute_enabled, controls_vars, net, ui_queue,
                   dialogs, req_count, superseded, cause_since_send>>

\* TonyController.on_shutdown_ready
on_shutdown_ready ==
    /\ Deliver
    /\ signals' = Signal(ZeroLog, "warning", "not officially supported")
    /\ raised' = NoError
    /\ returned' = NoReturn
    /\ UNCHANGED <<model_actions, controller_vars, execute_enabled, controls_vars, net,
                   ui_queue, view_list_vars, dialogs, history_vars>>

\* TonyController.on_unknown_command: the body is a comment
on_unknown_command ==
    /\ Deliver
    /\ Quiet
    /\ UNCHANGED <<model_actions, controller_vars, execute_enabled, controls_vars, net,
                   ui_queue, view_list_vars, dialogs, history_vars>>

\* a validation that accepts every request
all_exist_unchecked(actions, names) == TRUE

\* all(self.model.has_action(name) for name in cmd.action_names)
all_exist(actions, names) == \A name \in names : has_action(actions, name)

\* an action/result or an unlock has its Enable still on the way
EnablePending(queue) ==
    \E i \in 1..Len(queue) : queue[i].fn \in {"on_action_result", "Enable"}

\* TonyController.send_action with the id its caller has drawn;
\* req: the forced request the invocation answers (0: none)
send_action_id(id, name, data, req) ==
    /\ sent' = Append(sent, Invocation(id, name, data, req))
    /\ execute_enabled' = FALSE
    /\ cause_since_send' = EnablePending(ui_queue)

\* self.send_action(next(self.id_generator), ...) on the UI thread, in one step: the
\* interleavings of the two threads are those of the network thread's steps
send_action(name, data, req) ==
    /\ send_action_id(ActionId(id_next), name, data, req)
    /\ id_next' = id_next + 1

\* a handler that never reads the ignore flag
force_ignored_never == FALSE

\* on_actions_force: if self.view.controls.ignore_actions_force
force_ignored == ignore_actions_force

\* a retry that never reads the ignore flag
retry_ignored_never == FALSE

\* retry_actions_force: if self.view.controls.ignore_actions_force
retry_ignored == ignore_actions_force

\* on_actions_force up to the call of execute_actions_force
on_actions_force(input, names) ==
    /\ Deliver
    /\ req_count' = req_count + 1
    /\ raised' = NoError
    /\ returned' = NoReturn
    /\ LET cmd == [req |-> req_count + 1, state |-> input.state, query |-> input.query,
                   ephemeral |-> input.ephemeral, names |-> names]
           log0 == IF cmd.state # NoState /\ cmd.state # ""
                   THEN ZeroLog ELSE Signal(ZeroLog, "info", "no state")
       IN IF force_ignored
          THEN /\ active_actions_force' = NoCmd
               /\ signals' = Signal(log0, "system", "ignored")
               /\ net' = net
          ELSE IF ~all_exist(model_actions, cmd.names)
          THEN /\ active_actions_force' = NoCmd
               /\ signals' = Signal(log0, "warning", "invalid actions")
               /\ net' = net
          ELSE /\ active_actions_force' = active_actions_force
               /\ signals' = log0
               /\ net' = [NetIdle EXCEPT !.pc = "execute", !.cmd = cmd]
    /\ removed_since_accept' =
          IF active_actions_force' = NoCmd THEN FALSE ELSE removed_since_accept
    /\ UNCHANGED <<model_actions, id_next, sent, execute_enabled, controls_vars, ui_queue,
                   view_list_vars, dialogs, superseded, cause_since_send>>

\* the end of on_action_result: the message is logged and view.on_action_result queued
result_log(log, success, has_message) ==
    IF has_message THEN log
    ELSE IF success THEN Signal(log, "info", "no message")
    ELSE Signal(log, "warning", "no message")

result_tail(queue) == CallAfter(queue, "on_action_result", NoAction, NoCmd, FALSE)

\* a retry that runs the request as a first attempt
retry_call_as_first(cmd, has_message) ==
    [NetIdle EXCEPT !.pc = "execute", !.cmd = cmd, !.retry = FALSE, !.from_result = TRUE,
                    !.has_message = has_message]

\* retry_actions_force: self.execute_actions_force(cmd, retry=True), called from
\* on_action_result
retry_call(cmd, has_message) ==
    [NetIdle EXCEPT !.pc = "execute", !.cmd = cmd, !.retry = TRUE, !.from_result = TRUE,
                    !.has_message = has_message]

\* on_action_result up to the call of execute_actions_force (through
\* retry_actions_force), or to its end when there is no retry
on_action_result(success, has_message) ==
    /\ Deliver
    /\ raised' = NoError
    /\ returned' = NoReturn
    /\ cause_since_send' = TRUE
    /\ IF ~success /\ active_actions_force # NoCmd
       THEN \* retry_actions_force(self.active_actions_force)
            IF retry_ignored
            THEN /\ active_actions_force' = NoCmd
                 /\ signals' = result_log(Signal(ZeroLog, "system", "ignored"),
                                         success, has_message)
                 /\ ui_queue' = result_tail(ui_queue)
                 /\ net' = net
            ELSE IF ~all_exist(model_actions, active_actions_force.names)
            THEN /\ active_actions_force' = NoCmd
                 /\ signals' = result_log(Signal(ZeroLog, "warning", "retry aborted"),
                                        success, has_message)
                 /\ ui_queue' = result_tail(ui_queue)
                 /\ net' = net
            ELSE /\ active_actions_force' = active_actions_force
                 /\ signals' = ZeroLog
                 /\ ui_queue' = ui_queue
                 /\ net' = retry_call(active_actions_force, has_message)
       ELSE /\ active_actions_force' = NoCmd
            /\ signals' = result_log(ZeroLog, success, has_message)
            /\ ui_queue' = result_tail(ui_queue)
            /\ net' = net
    /\ removed_since_accept' =
          IF active_actions_force' = NoCmd THEN FALSE ELSE removed_since_accept
    /\ UNCHANGED <<model_actions, id_next, sent, execute_enabled, controls_vars,
                   view_list_vars, dialogs, req_count, superseded>>

\* [action for action in self.model.actions if action.name in cmd.action_names]
candidates(actions, names) == SelectSeq(actions, LAMBDA a : a.name \in names)

\* execute_actions_force up to random.choice (auto) or to its end (manual); as a retry,
\* the end of on_action_result follows its end
execute_actions_force ==
    /\ net.pc = "execute"
    /\ active_actions_force' = net.cmd
    /\ removed_since_accept' = IF net.retry THEN removed_since_accept ELSE FALSE
    /\ IF auto_send
       THEN LET actions == candidates(model_actions, net.cmd.names) IN
            IF actions = <<>>
            THEN \* random.choice raises IndexError; the handler is left
                 /\ net' = NetIdle
                 /\ signals' = ZeroLog
                 /\ raised' = "network"
                 /\ returned' = NoReturn
                 /\ UNCHANGED ui_queue
            ELSE /\ \E i \in 1..Len(actions) :
                        net' = [net EXCEPT !.pc = "send", !.action = actions[i]]
                 /\ Quiet
                 /\ UNCHANGED ui_queue
       ELSE /\ ui_queue' =
                  LET q == CallAfter(ui_queue, "force_actions", NoAction, net.cmd,
                                     net.retry)
                  IN IF net.from_result THEN result_tail(q) ELSE q
            /\ signals' = IF net.from_result
                          THEN result_log(ZeroLog, FALSE, net.has_message) ELSE ZeroLog
            /\ raised' = NoError
            /\ returned' = NoReturn
            /\ net' = NetIdle
    /\ UNCHANGED <<model_actions, id_next, sent, execute_enabled, controls_vars,
                   view_list_vars, dialogs, budget, req_count, superseded,
                   cause_since_send>>

\* the payload of an automatic invocation
auto_data(action) == IF action.schema = NoSchema THEN NoData ELSE SampleData

\* execute_actions_force (auto): next(self.id_generator), the argument of the call
\* of send_action, is evaluated
execute_actions_force_next_id ==
    /\ net.pc = "send"
    /\ net' = [net EXCEPT !.pc = "call", !.id = ActionId(id_next)]
    /\ id_next' = id_next + 1
    /\ Quiet
    /\ UNCHANGED <<model_actions, active_actions_force, sent, execute_enabled,
                   controls_vars, ui_queue, view_list_vars, dialogs, budget,
                   history_vars>>

\* execute_actions_force from the call of send_action to its end (auto); as a retry,
\* the end of on_action_result follows
execute_actions_force_send ==
    /\ net.pc = "call"
    /\ send_action_id(net.id, net.action.name, auto_data(net.action), net.cmd.req)
    /\ ui_queue' = IF net.from_result THEN result_tail(ui_queue) ELSE ui_queue
    /\ signals' = IF net.from_result
                  THEN result_log(ZeroLog, FALSE, net.has_message) ELSE ZeroLog
    /\ raised' = NoError
    /\ returned' = NoReturn
    /\ net' = NetIdle
    /\ UNCHANGED <<model_actions, active_actions_force, id_next, controls_vars,
                   view_list_vars, dialogs, budget, req_count, superseded,
                   removed_since_accept>>

\* ------------------------------------------------------------------ UI thread: callbacks
\* wx.CallAfter(self.view.add_action, action): ActionList.add_action
ui_add_action ==
    /\ ui_queue # <<>> /\ Head(ui_queue).fn = "add_action"
    /\ ui_queue' = Tail(ui_queue)
    /\ view_actions' = Append(view_actions, Head(ui_queue).action)
    /\ view_rows' = Append(view_rows, Head(ui_queue).action.name)
    /\ Quiet
    /\ UNCHANGED <<model_actions, controller_vars, execute_enabled, controls_vars, net,
                   dialogs, budget, history_vars>>

\* wx.CallAfter(self.view.clear_actions): ActionList.clear
ui_clear_actions ==
    /\ ui_queue # <<>> /\ Head(ui_queue).fn = "clear_actions"
    /\ ui_queue' = Tail(ui_queue)
    /\ view_actions' = <<>>
    /\ view_rows' = <<>>
    /\ Quiet
    /\ UNCHANGED <<model_actions, controller_vars, execute_enabled, controls_vars, net,
                   dialogs, budget, history_vars>>

\* wx.CallAfter(self.view.force_actions, ...): HumanView.force_actions up to ShowModal
ui_force_actions ==
    /\ ui_queue # <<>> /\ Head(ui_queue).fn = "force_actions"
    /\ ui_queue' = Tail(ui_queue)
    /\ LET c == Head(ui_queue)
       IN dialogs' = Append(dialogs,
                            ForceDialog(c.cmd, candidates(model_actions, c.cmd.names),
                                        c.retry))
    /\ Quiet
    /\ UNCHANGED <<model_actions, controller_vars, execute_enabled, controls_vars, net,
                   view_list_vars, budget, history_vars>>

\* an enable_actions that queues nothing
enable_actions_dropped(queue) == queue

\* HumanView.enable_actions: wx.CallAfter(execute_button.Enable)
enable_actions(queue) == CallAfter(queue, "Enable", NoAction, NoCmd, FALSE)

\* wx.CallAfter(self.view.on_action_result, ...): HumanView.on_action_result
ui_on_action_result ==
    /\ ui_queue # <<>> /\ Head(ui_queue).fn = "on_action_result"
    /\ ui_queue' = enable_actions(Tail(ui_queue))
    /\ Quiet
    /\ UNCHANGED <<model_actions, controller_vars, execute_enabled, controls_vars, net,
                   view_list_vars, dialogs, budget, history_vars>>

\* wx.CallAfter(execute_button.Enable)
ui_enable ==
    /\ ui_queue # <<>> /\ Head(ui_queue).fn = "Enable"
    /\ ui_queue' = Tail(ui_queue)
    /\ execute_enabled' = TRUE
    /\ Quiet
    /\ UNCHANGED <<model_actions, controller_vars, controls_vars, net, view_list_vars,
                   dialogs, budget, history_vars>>

\* ------------------------------------------------------------------ UI thread: operator
MainFrameActive == dialogs = <<>>

TopDialog == dialogs[Len(dialogs)]

Pop(stack) == SubSeq(stack, 1, Len(stack) - 1)

\* `not action.schema`
schema_falsy(action) == action.schema \in {NoSchema, EmptySchema}

\* ActionList.on_execute of the main list, and TonyController.on_view_execute up to
\* its first return or to ShowModal of the ActionDialog
view_on_execute(index) ==
    /\ MainFrameActive
    /\ execute_enabled
    /\ Operate
    /\ index \in 1..Len(view_rows)
    /\ IF index > Len(view_actions)
       THEN \* self.actions[index] raises IndexError in the event handler
            /\ signals' = ZeroLog
            /\ raised' = "ui"
            /\ returned' = NoReturn
            /\ UNCHANGED <<controller_vars, execute_enabled, dialogs, cause_since_send>>
       ELSE LET action == view_actions[index] IN
            IF schema_falsy(action)
            THEN /\ send_action(action.name, NoData, 0)
                 /\ Returns(ReturnsTrue)
                 /\ UNCHANGED <<active_actions_force, dialogs>>
            ELSE /\ dialogs' = Append(dialogs, DataDialog(action, 0))
                 /\ Quiet
                 /\ UNCHANGED <<controller_vars, execute_enabled, cause_since_send>>
    /\ UNCHANGED <<model_actions, controls_vars, net, ui_queue, view_list_vars,
                   req_count, superseded, removed_since_accept>>

\* ActionList.on_delete of the main list and TonyController.on_view_delete_action
on_view_delete_action(index) ==
    /\ MainFrameActive
    /\ Operate
    /\ index \in 1..Len(view_rows)
    /\ IF index > Len(view_actions)
       THEN \* self.actions[index] raises IndexError in the event handler
            /\ signals' = ZeroLog
            /\ raised' = "ui"
            /\ returned' = NoReturn
            /\ UNCHANGED <<model_actions, view_list_vars, removed_since_accept>>
       ELSE LET name == view_actions[index].name
            IN /\ model_actions' = remove_action_by_name(model_actions, name)
               /\ view_actions' = view_remove_actions(view_actions, name)
               /\ view_rows' = view_remove_row(view_rows, name)
               /\ signals' = IF view_row_found(view_rows, name)
                             THEN ZeroLog ELSE Signal(ZeroLog, "error", "not found in list")
               /\ raised' = NoError
               /\ returned' = NoReturn
               /\ Removes(NamesOf(model_actions) \cap {name})
    /\ UNCHANGED <<controller_vars, execute_enabled, controls_vars, net, ui_queue,
                   dialogs, req_count, superseded, cause_since_send>>

\* an unlock that also gives up the active request
on_view_unlock_clears ==
    /\ IF MainFrameActive THEN TRUE ELSE TopDialog.kind = "force"
    /\ Operate
    /\ ui_queue' = enable_actions(ui_queue)
    /\ active_actions_force' = NoCmd
    /\ cause_since_send' = TRUE
    /\ Quiet
    /\ UNCHANGED <<model_actions, id_next, sent, execute_enabled, controls_vars, net,
                   view_list_vars, dialogs, req_count, superseded, removed_since_accept>>

\* ActionList.on_unlock (main list or the list of a forced-action dialog) and
\* TonyController.on_view_unlock
on_view_unlock ==
    /\ IF MainFrameActive THEN TRUE ELSE TopDialog.kind = "force"
    /\ Operate
    /\ ui_queue' = enable_actions(ui_queue)
    /\ cause_since_send' = TRUE
    /\ Quiet
    /\ UNCHANGED <<model_actions, controller_vars, execute_enabled, controls_vars, net,
                   view_list_vars, dialogs, req_count, superseded, removed_since_accept>>

\* a reregister-all that empties the list of the view only
on_view_send_actions_reregister_all_view_only ==
    /\ MainFrameActive
    /\ Operate
    /\ ui_queue' = CallAfter(ui_queue, "clear_actions", NoAction, NoCmd, FALSE)
    /\ Quiet
    /\ UNCHANGED <<model_actions, controller_vars, execute_enabled, controls_vars, net,
                   view_list_vars, dialogs, history_vars>>

\* TonyController.on_view_send_actions_reregister_all
on_view_send_actions_reregister_all ==
    /\ MainFrameActive
    /\ Operate
    /\ model_actions' = clear_actions
    /\ ui_queue' = CallAfter(ui_queue, "clear_actions", NoAction, NoCmd, FALSE)
    /\ Quiet
    /\ Removes(NamesOf(model_actions))
    /\ UNCHANGED <<controller_vars, execute_enabled, controls_vars, net, view_list_vars,
                   dialogs, req_count, superseded, cause_since_send>>

\* ControlPanel.on_ignore_actions_force: a click on the checkbox flips it and the
\* handler stores event.IsChecked()
on_ignore_actions_force ==
    /\ MainFrameActive
    /\ Operate
    /\ ignore_actions_force' = ~ignore_actions_force
    /\ Quiet
    /\ UNCHANGED <<model_actions, controller_vars, execute_enabled, auto_send, net,
                   ui_queue, view_list_vars, dialogs, history_vars, latency_vars>>

\* ControlPanel.on_auto_send: a click on the checkbox flips it and the handler stores
\* event.IsChecked()
on_auto_send ==
    /\ MainFrameActive
    /\ Operate
    /\ auto_send' = ~auto_send
    /\ Quiet
    /\ UNCHANGED <<model_actions, controller_vars, execute_enabled, ignore_actions_force,
                   net, ui_queue, view_list_vars, dialogs, history_vars, latency_vars>>

\* ------------------------------------------------------------------ UI thread: latency
\* the characters the operator types into the latency field
Keys == {"-", "0", "1", ".", " ", "_"}

Digits == {"0", "1", "2", "3", "4", "5", "6", "7", "8", "9"}

DigitValue(c) ==
    CASE c = "0" -> 0 [] c = "1" -> 1 [] c = "2" -> 2 [] c = "3" -> 3 [] c = "4" -> 4
      [] c = "5" -> 5 [] c = "6" -> 6 [] c = "7" -> 7 [] c = "8" -> 8 [] c = "9" -> 9

\* int() ignores white space around the literal
RECURSIVE lstrip(_)
lstrip(text) ==
    IF text # <<>> /\ Head(text) = " " THEN lstrip(Tail(text)) ELSE text

RECURSIVE rstrip(_)
rstrip(text) ==
    IF text # <<>> /\ text[Len(text)] = " "
    THEN rstrip(SubSeq(text, 1, Len(text) - 1)) ELSE text

\* the digits of an int() literal: decimal digits, single underscores between them
int_literal(u) ==
    /\ u # <<>>
    /\ \A i \in 1..Len(u) : u[i] \in Digits \cup {"_"}
    /\ u[1] \in Digits
    /\ u[Len(u)] \in Digits
    /\ \A i \in 1..(Len(u) - 1) : ~(u[i] = "_" /\ u[i + 1] = "_")

RECURSIVE int_digits(_, _)
int_digits(u, acc) ==
    IF u = <<>> THEN acc
    ELSE IF Head(u) = "_" THEN int_digits(Tail(u), acc)
    ELSE int_digits(Tail(u), 10 * acc + DigitValue(Head(u)))

\* int(text): ok is FALSE where int raises ValueError
py_int(text) ==
    LET t == rstrip(lstrip(text))
        signed == t # <<>> /\ Head(t) \in {"+", "-"}
        u == IF signed THEN Tail(t) ELSE t
    IN IF int_literal(u)
       THEN [ok |-> TRUE,
             value |-> IF signed /\ Head(t) = "-" THEN 0 - int_digits(u, 0)
                       ELSE int_digits(u, 0)]
       ELSE [ok |-> FALSE, value |-> 0]

\* a range test that lets every value through
too_large_never(value) == FALSE

\* elif latency > 10000
too_large(value) == value > 10000

\* if latency < 0
too_small(value) == value < 0

\* ControlPanel.on_latency: the EVT_TEXT handler, called with the new text of the field
on_latency(text) ==
    /\ MainFrameActive
    /\ latency_input' = text
    /\ LET r == py_int(text) IN
       IF ~r.ok
       THEN /\ latency_tooltip' = "invalid literal for int()"
            /\ latency' = latency
       ELSE IF too_small(r.value)
       THEN /\ latency_tooltip' = "Latency must be non-negative."
            /\ latency' = latency
       ELSE IF too_large(r.value)
       THEN /\ latency_tooltip' = "Latency must not exceed 10000 ms."
            /\ latency' = latency
       ELSE /\ latency_tooltip' = NoToolTip
            /\ latency' = r.value
    /\ Quiet
    /\ UNCHANGED <<model_actions, controller_vars, execute_enabled, ignore_actions_force,
                   auto_send, net, ui_queue, view_list_vars, dialogs, budget,
                   history_vars>>

\* the texts one edit of the operator makes of the field: a key typed at the end, the
\* last character deleted, the field emptied
Edits(text) ==
    ({Append(text, k) : k \in {c \in Keys : Len(text) < MaxLen}}
     \cup {SubSeq(text, 1, Len(text) - 1)} \cup {<<>>}) \ {text}

\* ------------------------------------------------------------------ UI thread: dialogs
\* Execute in a forced-action dialog: ActionList.on_execute of the dialog's list calls
\* on_view_execute, then ActionsForceDialog.on_execute ends the dialog with ID_OK
force_dialog_execute(index) ==
    /\ dialogs # <<>> /\ TopDialog.kind = "force"
    /\ index \in 1..Len(TopDialog.actions)
    /\ LET action == TopDialog.actions[index] IN
       IF schema_falsy(action)
       THEN /\ send_action(action.name, NoData, TopDialog.req)
            /\ dialogs' = Pop(dialogs)
            /\ Returns(ReturnsTrue)
       ELSE /\ dialogs' = Append(dialogs, DataDialog(action, TopDialog.req))
            /\ Quiet
            /\ UNCHANGED <<id_next, sent, execute_enabled, cause_since_send>>
    /\ UNCHANGED <<model_actions, active_actions_force, controls_vars, net, ui_queue,
                   view_list_vars, budget, req_count, superseded, removed_since_accept>>

\* a cancel that also gives up the request
force_dialog_cancel_clears ==
    /\ dialogs # <<>> /\ TopDialog.kind = "force"
    /\ dialogs' = Pop(dialogs)
    /\ active_actions_force' = NoCmd
    /\ Quiet
    /\ UNCHANGED <<model_actions, id_next, sent, execute_enabled, controls_vars, net,
                   ui_queue, view_list_vars, budget, history_vars>>

\* a forced-action dialog is closed without Execute: force_actions logs and returns
force_dialog_cancel ==
    /\ dialogs # <<>> /\ TopDialog.kind = "force"
    /\ dialogs' = Pop(dialogs)
    /\ Quiet
    /\ UNCHANGED <<model_actions, controller_vars, execute_enabled, controls_vars, net,
                   ui_queue, view_list_vars, budget, history_vars>>

\* the dialogs left when the ActionDialog on top returns: opened from a forced-action
\* dialog (req # 0), that dialog's on_execute then ends it with ID_OK
after_data_dialog == IF TopDialog.req # 0 THEN Pop(Pop(dialogs)) ELSE Pop(dialogs)

\* ActionDialog.on_send accepted: show_action_dialog returns the text and
\* on_view_execute sends the action
data_dialog_send ==
    /\ dialogs # <<>> /\ TopDialog.kind = "data"
    /\ send_action(TopDialog.action.name, TextData, TopDialog.req)
    /\ dialogs' = after_data_dialog
    /\ Returns(ReturnsTrue)
    /\ UNCHANGED <<model_actions, active_actions_force, controls_vars, net, ui_queue,
                   view_list_vars, budget, req_count, superseded, removed_since_accept>>

\* a cancel of the data dialog that on_view_execute reports as an action sent
data_dialog_cancel_reported_sent ==
    /\ dialogs # <<>> /\ TopDialog.kind = "data"
    /\ dialogs' = after_data_dialog
    /\ Returns(ReturnsTrue)
    /\ UNCHANGED <<model_actions, controller_vars, execute_enabled, controls_vars, net,
                   ui_queue, view_list_vars, budget, history_vars>>

\* ActionDialog.on_cancel: show_action_dialog returns None, on_view_execute False
data_dialog_cancel ==
    /\ dialogs # <<>> /\ TopDialog.kind = "data"
    /\ dialogs' = after_data_dialog
    /\ Returns(ReturnsFalse)
    /\ UNCHANGED <<model_actions, controller_vars, execute_enabled, controls_vars, net,
                   ui_queue, view_list_vars, budget, history_vars>>

\* ------------------------------------------------------------------ specification
NetworkThread ==
    \/ on_unknown_command
    \/ on_startup
    \/ on_context
    \/ \E batch \in RegisterBatches : on_actions_register(batch)
    \/ \E names \in UnregisterBatches : on_actions_unregister(names)
    \/ \E input \in ForceInputs, names \in SUBSET Names : on_actions_force(input, names)
    \/ \E success \in BOOLEAN, has_message \in BOOLEAN :
            on_action_result(success, has_message)
    \/ execute_actions_force
    \/ execute_actions_force_next_id
    \/ execute_actions_force_send
    \/ on_shutdown_ready

UiThread ==
    \/ ui_add_action
    \/ ui_clear_actions
    \/ ui_force_actions
    \/ ui_on_action_result
    \/ ui_enable
    \/ \E index \in 1..Len(view_rows) : view_on_execute(index)
    \/ \E index \in 1..Len(view_rows) : on_view_delete_action(index)
    \/ on_view_unlock
    \/ on_view_send_actions_reregister_all
    \/ on_ignore_actions_force
    \/ on_auto_send
    \/ \E index \in 1..Cardinality(Names) : force_dialog_execute(index)
    \/ force_dialog_cancel
    \/ data_dialog_send
    \/ data_dialog_cancel

Next == NetworkThread \/ UiThread

Spec == Init /\ [][Next]_vars

\* the callbacks queued with wx.CallAfter: the event loop of the UI thread (also the
\* nested loop of a modal dialog) runs the head of the queue
UiCallbacks ==
    \/ ui_add_action
    \/ ui_clear_actions
    \/ ui_force_actions
    \/ ui_on_action_result
    \/ ui_enable

LiveBudget == [cmds |-> LiveCmds, ops |-> LiveOps]

LiveInit ==
    /\ model_actions = <<>>
    /\ active_actions_force = NoCmd
    /\ id_next = 0
    /\ sent = <<>>
    /\ execute_enabled = TRUE
    /\ ignore_actions_force = FALSE
    /\ auto_send = FALSE
    /\ net = NetIdle
    /\ signals = ZeroLog
    /\ raised = NoError
    /\ ui_queue = <<>>
    /\ view_actions = <<>>
    /\ view_rows = <<>>
    /\ dialogs = <<>>
    /\ req_count = 0
    /\ budget = LiveBudget
    /\ superseded = {}
    /\ cause_since_send = FALSE
    /\ removed_since_accept = FALSE
    /\ latency = 0
    /\ latency_input = <<"0">>
    /\ latency_tooltip = NoToolTip
    /\ returned = NoReturn

\* the program with the UI thread's event loop running: a queued callback is
\* eventually called
LiveSpec == LiveInit /\ [][Next]_vars /\ WF_vars(UiCallbacks)

\* the operator edits the latency field
LatencyNext == \E text \in Edits(latency_input) : on_latency(text)

\* the control panel's latency field alone: Controls.latency is read by the transport
\* only (api.get_delay) and by no handler of the controller
LatencySpec == Init /\ [][LatencyNext]_vars

\* ------------------------------------------------------------------ properties
\* the forced-action dialogs scheduled on the UI thread
Presented(queue) == Cardinality({i \in 1..Len(queue) : queue[i].fn = "force_actions"})

\* a step that delivers an actions/force command
ForceArrives ==
    \E input \in ForceInputs, names \in SUBSET Names : on_actions_force(input, names)

\* a step that delivers a failed action/result
FailedResultArrives == \E has_message \in BOOLEAN : on_action_result(FALSE, has_message)

\* C1: a Startup command, in whatever state it is dispatched, leaves the Registry
\* empty and leaves no forced request active.
C1_StartupClearsRegistryAndRequest ==
    [][on_startup => (model_actions' = <<>> /\ active_actions_force' = NoCmd)]_vars

\* C2: when the handling of a failed action/result that found the active request
\* valid and not ignored ends, exactly one new invocation has been sent for that
\* request, with an id no earlier invocation carries.  Stated for the automatic mode,
\* where the handler itself sends, and for a request that names candidates.
C2_RetrySendsOneFreshInvocation ==
    [][(/\ net.from_result /\ net.pc # "idle" /\ net'.pc = "idle"
        /\ auto_send /\ net.cmd.names # {})
       => /\ Len(sent') = Len(sent) + 1
          /\ sent'[Len(sent')].req = net.cmd.req
          /\ \A i \in 1..Len(sent) : sent[i].id # sent'[Len(sent')].id]_vars

\* C3: an actions/force command that arrives while a forced request is active is
\* rejected: no step of its handling replaces or clears the active request.
C3_ForceWhileActiveRejected ==
    [][(/\ active_actions_force # NoCmd
        /\ \/ ForceArrives
           \/ (execute_actions_force /\ ~net.retry))
       => active_actions_force' = active_actions_force]_vars

\* C4: an actions/force command whose names are not all in the Registry when it is
\* dispatched sends no invocation, leaves no request active (Idle) and emits exactly
\* one warning signal.
C4_InvalidForceDroppedWithOneWarning ==
    [][\A input \in ForceInputs, names \in SUBSET Names :
         (on_actions_force(input, names) /\ \E n \in names : ~has_action(model_actions, n))
         => /\ sent' = sent
            /\ active_actions_force' = NoCmd
            /\ net'.pc = "idle"
            /\ Emitted(signals', "warning") = 1]_vars

\* what C5 asks of the step that handles the failed result: no retry is started, no
\* invocation sent, no manual decision scheduled, the active request cleared
RetryAborted ==
    /\ active_actions_force' = NoCmd
    /\ net'.pc = "idle"
    /\ sent' = sent
    /\ Presented(ui_queue') = Presented(ui_queue)

\* C5 as stated: after a failed action/result, if a candidate of the active request has
\* been removed from the Registry since the request was accepted, the retry is aborted.
C5_RemovedSinceAcceptAbortsRetry ==
    [][(FailedResultArrives /\ active_actions_force # NoCmd /\ removed_since_accept)
       => RetryAborted]_vars

\* C5, amended: after a failed action/result, if a candidate of the active request is
\* not in the Registry when the result is handled, no retry invocation is sent and no
\* manual decision is presented; the active request is cleared and the state is Idle.
C5_MissingCandidateAbortsRetry ==
    [][(/\ FailedResultArrives
        /\ active_actions_force # NoCmd
        /\ \E n \in active_actions_force.names : ~has_action(model_actions, n))
       => RetryAborted]_vars

\* a failed result has just been handled with a candidate missing: the retry was
\* aborted with its warning and the request dropped
C5_Witness ==
    /\ \E i \in 1..Len(signals) : signals[i].text = "retry aborted"
    /\ active_actions_force = NoCmd
    /\ net.pc = "idle"
    /\ sent # <<>>

\* C6: no two invocations sent in a run carry the same id, whether first forced
\* attempts, retries or executions started by the operator.
C6_IdsUnique ==
    \A i, j \in 1..Len(sent) : i # j => sent[i].id # sent[j].id

\* a forced attempt, its retry and an execution started by the operator were sent
C6_Witness ==
    /\ Len(sent) >= 3
    /\ \E i, j \in 1..Len(sent) : i # j /\ sent[i].req # 0 /\ sent[i].req = sent[j].req
    /\ \E i \in 1..Len(sent) : sent[i].req = 0

\* C7: in every reachable state the Registry holds at most one action per name.
C7_RegistryNamesUnique ==
    \A i, j \in 1..Len(model_actions) :
        i # j => model_actions[i].name # model_actions[j].name

\* the first command of the run registered a batch that repeats a name: one action
\* was kept, the other dropped with a warning
C7_Witness ==
    /\ budget.cmds = MaxCmds - 1
    /\ Len(model_actions) = 1
    /\ \E i \in 1..Len(signals) : signals[i].text = "already exists"

\* the last invocation is a further attempt of the forced request of the one before it
LastSentIsRetry ==
    /\ Len(sent) >= 2
    /\ sent[Len(sent)].req # 0
    /\ sent[Len(sent) - 1].req = sent[Len(sent)].req

\* C8: once an invocation has been sent, execution by the operator stays disabled
\* until an action/result or an unlock occurs after that send.  Stated for the
\* invocation the claim singles out, the retry of a forced request; an Enable that
\* was already queued when the retry was sent is let through.
C8_DisabledAfterRetryUntilResultOrUnlock ==
    (LastSentIsRetry /\ execute_enabled) => cause_since_send

\* C9: no Registry mutation of the operator takes effect between the validation of a
\* forced request and the selection and sending of its invocation: the selection set
\* of a request that names candidates is not empty, and the invoked action is in the
\* Registry when its invocation is sent.
C9_ForcedHandlingSerialized ==
    [][/\ (execute_actions_force /\ auto_send /\ net.cmd.names # {})
          => candidates(model_actions, net.cmd.names) # <<>>
       /\ execute_actions_force_send => has_action(model_actions, net.action.name)]_vars

\* C10: no invocation is ever sent for a forced request whose manual decision was
\* pending (dialog scheduled or open) when a Startup command was dispatched.
C10_StartupAbortsPendingDecision ==
    [][Len(sent') > Len(sent) => sent'[Len(sent')].req \notin superseded']_vars

\* C11: no command makes dispatch fail: in every reachable state the handler of the
\* last command has completed without an unhandled error.
C11_NoCommandFailsDispatch == raised # "network"

\* the request delivered by the step is held nowhere afterwards: not as the active
\* request, not by the handler, not by a scheduled or open forced-action dialog
RequestDropped ==
    /\ active_actions_force' = NoCmd
    /\ net'.pc = "idle"
    /\ \A i \in 1..Len(ui_queue') : ui_queue'[i].cmd.req # req_count'
    /\ \A i \in 1..Len(dialogs') : dialogs'[i].req # req_count'

\* C12: whenever the ignore flag is set when an actions/force command is dispatched,
\* no invocation is sent and no manual decision is presented for it, and the state is
\* Idle afterwards, whatever its candidates and whether auto-send is on or off.
C12_IgnoredForceIsDropped ==
    [][(ForceArrives /\ ignore_actions_force)
       => (sent' = sent /\ Presented(ui_queue') = Presented(ui_queue) /\ RequestDropped)]_vars

\* an actions/force command with registered candidates has just been ignored
C12_Witness ==
    /\ signals = <<[level |-> "system", text |-> "ignored"]>>
    /\ ui_queue = <<>>
    /\ ignore_actions_force
    /\ req_count >= 1
    /\ model_actions # <<>>
    /\ active_actions_force = NoCmd
    /\ net.pc = "idle"

\* the view callback of an action/result is queued
ResultPending == \E i \in 1..Len(ui_queue) : ui_queue[i].fn = "on_action_result"

\* C13: when a successful action/result is handled while a forced request is active,
\* the active request is cleared (Idle) and, once the handling completes, execution
\* by the operator is enabled again.
C13_SuccessClearsAndReenables ==
    /\ [][(\E has_message \in BOOLEAN : on_action_result(TRUE, has_message))
          => /\ active_actions_force' = NoCmd
             /\ net'.pc = "idle"
             /\ ui_queue' = result_tail(ui_queue)]_vars
    /\ (ResultPending ~> execute_enabled)

\* a successful result for a forced invocation was handled and execution, disabled by
\* that invocation, is enabled again
C13_Witness ==
    /\ sent # <<>>
    /\ sent[Len(sent)].req # 0
    /\ budget.ops = LiveOps
    /\ active_actions_force = NoCmd
    /\ ~ResultPending
    /\ cause_since_send
    /\ execute_enabled

\* the invocation names a candidate of the request that is in the Registry, and has no
\* data exactly when that action has no schema, the sampler's output otherwise
WellFormedFor(inv, cmd) ==
    /\ inv.name \in cmd.names
    /\ inv.req = cmd.req
    /\ \E i \in 1..Len(model_actions) :
          /\ model_actions[i].name = inv.name
          /\ inv.data = (IF model_actions[i].schema = NoSchema THEN NoData ELSE SampleData)

\* C14: in auto mode exactly one invocation is sent for an accepted forced request
\* (one that names candidates): it names an action that is a candidate and in the
\* Registry, without data exactly when the action has no schema, with the serialized
\* sample otherwise.
C14_AutoInvocationWellFormed ==
    [][/\ (execute_actions_force /\ auto_send /\ net.cmd.names # {})
          => net'.pc = "send"
       /\ execute_actions_force_send
          => (Len(sent') = Len(sent) + 1 /\ WellFormedFor(sent'[Len(sent')], net.cmd))]_vars

\* the i-th action of the batch is a duplicate: its name is in the Registry, or an
\* earlier action of the batch has it
Duplicate(batch, i) ==
    \/ \E k \in 1..Len(model_actions) : model_actions[k].name = batch[i].name
    \/ \E j \in 1..(i - 1) : batch[j].name = batch[i].name

\* C15: an actions/register batch leaves every existing entry unchanged, emits one
\* warning for each duplicate, and adds every action of the batch that is not a
\* duplicate, before or after a duplicate.
C15_DuplicatesDroppedOthersAdded ==
    [][\A batch \in RegisterBatches :
         on_actions_register(batch)
         => LET dups == {i \in 1..Len(batch) : Duplicate(batch, i)}
            IN /\ Len(model_actions') = Len(model_actions) + Len(batch) - Cardinality(dups)
               /\ SubSeq(model_actions', 1, Len(model_actions)) = model_actions
               /\ \A i \in (1..Len(batch)) \ dups :
                     \E k \in 1..Len(model_actions') : model_actions'[k] = batch[i]
               /\ Emitted(signals', "warning") = Cardinality(dups)
               /\ Emitted(signals', "error") = 0]_vars

\* the batch <<A2, B1>> was registered with b in the Registry: A2 was added, the
\* duplicate B1 dropped with a warning
C15_Witness ==
    /\ model_actions = <<B1, A2>>
    /\ signals = <<[level |-> "warning", text |-> "already exists"]>>

\* C16: an actions/unregister batch with a name that is not in the Registry yields
\* an informational signal for that name and no warning or error signal; the absent
\* name changes nothing in the Registry and every registered name of the batch is
\* removed.
C16_AbsentNameIsInformational ==
    [][\A names \in UnregisterBatches :
         LET absent == {i \in 1..Len(names) : ~has_action(model_actions, names[i])}
         IN (on_actions_unregister(names) /\ absent # {})
            => /\ Emitted(signals', "info") = Cardinality(absent)
               /\ Emitted(signals', "warning") = 0
               /\ Emitted(signals', "error") = 0
               /\ model_actions' =
                     SelectSeq(model_actions, LAMBDA a : a.name \notin SeqSet(names))]_vars

\* the operator cancels a forced-action decision: closes the forced-action dialog
\* without Execute, or cancels the data dialog opened from it
DecisionCancelled ==
    \/ force_dialog_cancel
    \/ (data_dialog_cancel /\ TopDialog.req # 0)

\* C17: in manual mode, when the operator cancels the forced-action decision, no
\* invocation is sent, no id is consumed and the active request stays as it is.
C17_CancelKeepsRequest ==
    [][DecisionCancelled
       => /\ sent' = sent
          /\ id_next' = id_next
          /\ active_actions_force' = active_actions_force]_vars

\* without any other input of the operator, the dialog of the active request was
\* shown and closed, and nothing was sent
C17_Witness ==
    /\ active_actions_force # NoCmd
    /\ active_actions_force.names # {}
    /\ model_actions # <<>>
    /\ dialogs = <<>>
    /\ Presented(ui_queue) = 0
    /\ net.pc = "idle"
    /\ budget.ops = MaxOps
    /\ sent = <<>>
    /\ id_next = 0

\* what an unlock leaves alone
UnlockFrame ==
    UNCHANGED <<active_actions_force, model_actions, id_next, sent, net, dialogs,
                controls_vars, view_list_vars>>

\* the Enable of an unlock or of a result is queued
EnableQueued == \E i \in 1..Len(ui_queue) : ui_queue[i].fn = "Enable"

\* C18: an unlock of the operator, in any state, changes only the execution lock, to
\* enabled: the active request, the Registry and the id generator are unchanged and no
\* invocation is sent.  The lock is changed by the Enable the unlock queues.
C18_UnlockOnlyEnables ==
    /\ [][on_view_unlock => (UnlockFrame /\ ui_queue' = enable_actions(ui_queue))]_vars
    /\ [][ui_enable => (UnlockFrame /\ execute_enabled')]_vars
    /\ (EnableQueued ~> execute_enabled)

\* with a forced request active and its invocation sent, the operator's one input was
\* an unlock: execution is enabled again and the request still active
C18_Witness ==
    /\ budget.cmds = LiveCmds - 2
    /\ budget.ops = 0
    /\ Len(sent) = 1
    /\ sent[1].req # 0
    /\ active_actions_force.req = sent[1].req
    /\ execute_enabled

\* C19: after a failed action/result while a forced request is active, if the ignore
\* flag is set at that moment, no retry invocation is sent, no manual decision is
\* presented and the active request is cleared (Idle), even when every candidate is
\* still registered.
C19_IgnoredRetryIsAborted ==
    [][(FailedResultArrives /\ active_actions_force # NoCmd /\ ignore_actions_force)
       => RetryAborted]_vars

\* a failed result without message has just been handled with the ignore flag set:
\* the retry was given up although the action invoked before is still registered
C19_Witness ==
    /\ signals = <<[level |-> "system", text |-> "ignored"],
                   [level |-> "warning", text |-> "no message"]>>
    /\ ignore_actions_force
    /\ active_actions_force = NoCmd
    /\ net.pc = "idle"
    /\ sent # <<>>
    /\ sent[Len(sent)].req # 0
    /\ has_action(model_actions, sent[Len(sent)].name)

\* C20: context, shutdown/ready and unknown commands leave the Registry, the active
\* request, the execution lock and the id generator unchanged and send no invocation;
\* an unknown command also surfaces a warning signal.
C20_PassiveCommandsFrame ==
    [][/\ (on_context \/ on_shutdown_ready \/ on_unknown_command)
          => UNCHANGED <<model_actions, active_actions_force, execute_enabled, id_next,
                         sent>>
       /\ on_unknown_command => Emitted(signals', "warning") >= 1]_vars

\* the text is no integer, or a negative one, or one above 10000
Unacceptable(text) ==
    LET r == py_int(text) IN ~r.ok \/ r.value < 0 \/ r.value > 10000

\* C21: the configured send delay is always an integer in 0..10000: an input of the
\* operator that is negative, greater than 10000 or not an integer is rejected (shown
\* to the operator in the tooltip) and leaves the delay accepted before unchanged; any
\* other input becomes the delay.
C21_DelayInRangePriorRetained ==
    /\ [](latency \in 0..10000)
    /\ [][\A text \in Edits(latency_input) :
            on_latency(text)
            => IF Unacceptable(text)
               THEN latency' = latency /\ latency_tooltip' # NoToolTip
               ELSE latency' = py_int(text).value /\ latency_tooltip' = NoToolTip]_vars

\* 1000 was accepted and the next key made it 10001: rejected, 1000 is kept
C21_Witness ==
    /\ latency = 1000
    /\ latency_input = <<"1", "0", "0", "0", "1">>
    /\ latency_tooltip = "Latency must not exceed 10000 ms."

\* C22: after a reregister-all request of the operator the Registry is empty,
\* whatever it held before.
C22_ReregisterAllEmptiesRegistry ==
    [][on_view_send_actions_reregister_all => model_actions' = <<>>]_vars

\* the operator asked for reregister-all with actions registered and listed: the
\* Registry is empty, the list of the view still waits for its clear
C22_Witness ==
    /\ model_actions = <<>>
    /\ view_actions # <<>>
    /\ \E i \in 1..Len(ui_queue) : ui_queue[i].fn = "clear_actions"

\* the step ends the forced-action dialog of request req with ID_OK, the operator
\* having pressed Execute on the candidate called name: at once when the candidate
\* needs no data, else when the data dialog opened from it returns
ForceDialogReturnsOk(name, req) ==
    \/ \E index \in 1..Cardinality(Names) :
          /\ force_dialog_execute(index)
          /\ dialogs' = Pop(dialogs)
          /\ name = TopDialog.actions[index].name
          /\ req = TopDialog.req
    \/ /\ data_dialog_send \/ data_dialog_cancel
       /\ TopDialog.req # 0
       /\ name = TopDialog.action.name
       /\ req = TopDialog.req

\* C23: in manual mode, whenever the forced-action dialog closes as accepted (Execute
\* pressed on a selected candidate, the dialog returns OK), exactly one invocation for
\* the chosen candidate has been sent for the request, also when the candidate has a
\* schema and the operator is asked for data.
C23_AcceptedDecisionSendsOne ==
    [][\A name \in Names, req \in 1..MaxCmds :
         ForceDialogReturnsOk(name, req)
         => /\ Len(sent') = Len(sent) + 1
            /\ sent'[Len(sent')].name = name
            /\ sent'[Len(sent')].req = req]_vars

\* C24: a retry reuses the same forced request: when a failed result is retried, the
\* request handed to the retry is the active one and stays the active one, and in
\* manual mode the decision point is scheduled and shown for that request with the
\* retry flag set exactly when the attempt answers a failed result.
C24_RetryReusesRequest ==
    [][/\ (FailedResultArrives /\ net'.pc = "execute")
          => /\ net'.cmd = active_actions_force
             /\ net'.retry
             /\ active_actions_force' = active_actions_force
       /\ (execute_actions_force /\ net.from_result)
          => active_actions_force' = active_actions_force
       /\ (execute_actions_force /\ ~auto_send)
          => \E i \in (Len(ui_queue) + 1)..Len(ui_queue') :
                /\ ui_queue'[i].fn = "force_actions"
                /\ ui_queue'[i].cmd = active_actions_force'
                /\ ui_queue'[i].retry = net.from_result
       /\ ui_force_actions
          => /\ dialogs'[Len(dialogs')].req = Head(ui_queue).cmd.req
             /\ dialogs'[Len(dialogs')].retry = Head(ui_queue).retry]_vars

\* the invocation of the active request failed and the dialog of its retry is open,
\* titled as a retry
C24_Witness ==
    /\ dialogs # <<>>
    /\ TopDialog.kind = "force"
    /\ TopDialog.retry
    /\ TopDialog.req = active_actions_force.req
    /\ active_actions_force.state = "s"
    /\ active_actions_force.names # {}
    /\ sent # <<>>
    /\ sent[Len(sent)].req = active_actions_force.req

\* a step that sends nothing: a cancelled dialog of the operator, a dropped forced
\* request, an aborted retry
NothingSent ==
    \/ force_dialog_cancel
    \/ data_dialog_cancel
    \/ (ForceArrives /\ net'.pc = "idle")
    \/ (FailedResultArrives /\ net'.pc = "idle")

\* C25: ids are consumed only by sending: the n-th invocation sent carries the id
\* action_{n-1}, so that the ids sent increase strictly and without gaps, and neither
\* a cancelled dialog of the operator, a dropped forced request nor an aborted retry
\* advances the generator.
C25_IdsConsumedBySending ==
    /\ [](\A n \in 1..Len(sent) : sent[n].id = <<"action_", n - 1>>)
    /\ [][NothingSent => id_next' = id_next]_vars

\* a step in which on_view_execute, called for the action of that name, returns: at
\* once for an action it sends without asking for data, else when the data dialog
\* it opened is closed
OnViewExecuteReturns(name) ==
    \/ \E index \in 1..Len(view_rows) :
          /\ view_on_execute(index)
          /\ index <= Len(view_actions)
          /\ dialogs' = dialogs
          /\ name = view_actions[index].name
    \/ \E index \in 1..Cardinality(Names) :
          /\ force_dialog_execute(index)
          /\ dialogs' = Pop(dialogs)
          /\ name = TopDialog.actions[index].name
    \/ /\ data_dialog_send \/ data_dialog_cancel
       /\ name = TopDialog.action.name

\* C26: an execute request of the operator (on_view_execute) returns True exactly
\* when it sent one invocation, which is for the selected action; when the data
\* dialog is cancelled it returns False, sends nothing, consumes no id and leaves the
\* execution lock and the active forced request unchanged.
C26_ExecuteReturnsTrueIffSent ==
    [][/\ \A name \in Names :
            OnViewExecuteReturns(name)
            => /\ returned' \in {ReturnsTrue, ReturnsFalse}
               /\ (returned' = ReturnsTrue) <=> (Len(sent') = Len(sent) + 1)
               /\ (returned' = ReturnsTrue)
                  => (sent'[Len(sent')].name = name /\ id_next' = id_next + 1)
               /\ (returned' = ReturnsFalse) => sent' = sent
       /\ data_dialog_send => returned' = ReturnsTrue
       /\ data_dialog_cancel
          => /\ returned' = ReturnsFalse
             /\ UNCHANGED <<sent, id_next, execute_enabled, active_actions_force>>]_vars

\* with a forced request active and nothing sent yet, the operator pressed Execute
\* on an action with a schema and cancelled the data dialog
C26_Witness ==
    /\ returned = ReturnsFalse
    /\ active_actions_force # NoCmd
    /\ sent = <<>>
    /\ id_next = 0
    /\ execute_enabled

\* the invocation sent last was issued for the active request
LastSentForActive ==
    /\ sent # <<>>
    /\ sent[Len(sent)].req = active_actions_force.req

\* C27: a forced request is retried only in answer to its own invocation: a failed
\* action/result that arrives while the invocation sent last was not issued for the
\* active request (it was started by the operator, or none was sent for the request
\* yet) starts no retry, sends no invocation and schedules no decision.  Stated for
\* a request that names candidates.
C27_RetryOnlyForOwnInvocation ==
    [][(/\ FailedResultArrives
        /\ active_actions_force # NoCmd
        /\ active_actions_force.names # {}
        /\ ~LastSentForActive)
       => /\ net'.pc # "execute"
          /\ sent' = sent
          /\ Presented(ui_queue') = Presented(ui_queue)]_vars

\* C28: the action list of the operator mirrors the Registry: in every state where
\* no deferred UI callback is pending, the names shown in the main action list, and
\* the names of the actions executable from it, are the names in the Registry.
C28_ActionListMirrorsRegistry ==
    ui_queue = <<>>
    => /\ SeqSet(view_rows) = NamesOf(model_actions)
       /\ NamesOf(view_actions) = NamesOf(model_actions)

====
